---- MODULE Spec2Model ----
(***************************************************************************)
(* RuleChef: a generator of Ghidra simplification rules.  The driver       *)
(* (rulechef.py) parses one rule description, asks the Rule to emit C++    *)
(* (rule.py, emit.py, tokens.py) and prints the text or writes it to a     *)
(* file.  The emitted text is modelled line by line: every line is a       *)
(* record naming its kind, its indentation and the names it mentions.      *)
(* Blank lines and the fixed comment lines carry no names and are left     *)
(* out.                                                                    *)
(***************************************************************************)
EXTENDS Integers, Sequences, FiniteSets, TLC

VARIABLES
    pc,         \* position of main(): "start", "parsed", "emitted", "done", "error"
    out_file,   \* sys.argv[2]: TRUE when an output file is named
    rule,       \* the Rule returned by parse_description (NoRule before)
    emitter,    \* the Emitter object of the most recent emit_c_code call
    code,       \* the text returned by the most recent emit_c_code call
    emits,      \* number of emit_c_code calls that returned
    stdout,     \* the texts printed to standard output
    file,       \* the output file: [exists, content]
    returned    \* the names _get_free_name returned, in call order

vars == <<pc, out_file, rule, emitter, code, emits, stdout, file, returned>>

(***************************************************************************)
(* Names.  A C identifier is the record [pre, id, n]: a rule variable      *)
(* "autovar_<id>" has n = -1, a generated name "<pre>_<n>" has id = "".    *)
(* Rule variables are words over a-z and '_' (parser.py:14), so no rule    *)
(* variable is spelled like a generated name, and two records are equal    *)
(* exactly when the two strings are.                                       *)
(***************************************************************************)
NoIdx == 0 - 1

Fresh(prefix, n) == [pre |-> prefix, id |-> "", n |-> n]

AutoVar(id) == [pre |-> "autovar", id |-> id, n |-> NoIdx]

NoName == [pre |-> "", id |-> "", n |-> NoIdx]

OpName == [pre |-> "op", id |-> "", n |-> NoIdx]

MaskedName == [pre |-> "masked_const", id |-> "", n |-> NoIdx]

(***************************************************************************)
(* Tokens (tokens.py).                                                     *)
(***************************************************************************)
TOK_VAR(name) == [t |-> "VAR", name |-> name]

TOK_SIZEOF(variable) == [t |-> "SIZEOF", var |-> variable]

\* A size written as a numeral is kept as the Python str it is.
StrSize(v) == [t |-> "STR", v |-> v]

TOK_NUMBER(val, size) == [t |-> "NUM", val |-> val, size |-> size]

TOK_BINARY_OPERATION(c_token, left, right) == [t |-> "BINOP", op |-> c_token, left |-> left, right |-> right]

TOK_OPCODE(name, args) == [t |-> "OP", name |-> name, args |-> args]

TOK_OPCODE_OR(elements) == [t |-> "OR", elements |-> elements]

TOK_CONSTRAINT(left, comparison, right) == [t |-> "CONSTR", left |-> left, cmp |-> comparison, right |-> right, or_func_name |-> NoName]

COMMUTATIVE_OP_NAMES == {"INT_EQUAL", "INT_NOTEQUAL", "INT_ADD", "INT_XOR", "INT_AND", "INT_OR", "INT_MULT", "BOOL_XOR", "BOOL_AND", "BOOL_OR", "FLOAT_EQUAL", "FLOAT_NOTEQUAL", "FLOAT_ADD", "FLOAT_MULT"}

\* "check_" + opcode.get_name().lower().rsplit("_", 1)[-1]  (emit.py:212), for
\* the commutative opcodes, the only ones it is computed for.
CheckPrefix(name) ==
    CASE name \in {"INT_EQUAL", "FLOAT_EQUAL"} -> "check_equal"
      [] name \in {"INT_NOTEQUAL", "FLOAT_NOTEQUAL"} -> "check_notequal"
      [] name \in {"INT_ADD", "FLOAT_ADD"} -> "check_add"
      [] name \in {"INT_XOR", "BOOL_XOR"} -> "check_xor"
      [] name \in {"INT_AND", "BOOL_AND"} -> "check_and"
      [] name \in {"INT_OR", "BOOL_OR"} -> "check_or"
      [] name \in {"INT_MULT", "FLOAT_MULT"} -> "check_mult"

(***************************************************************************)
(* to_c: the C text of a token, as a tree.                                 *)
(***************************************************************************)
CName(n) == [c |-> "name", n |-> n]

CGetIn(target, i) == [c |-> "getIn", of |-> target, i |-> i]

RECURSIVE ToC(_)
ToC(tok) ==
    CASE tok.t = "VAR" -> CName(tok.name)
      [] tok.t = "SIZEOF" -> [c |-> "getSize", n |-> tok.var.name]
      [] tok.t = "NUM" -> [c |-> "lit", v |-> tok.val]
      [] tok.t = "BINOP" -> [c |-> "bin", op |-> tok.op, l |-> ToC(tok.left), r |-> ToC(tok.right)]
      [] tok.t = "STR" -> [c |-> "lit", v |-> tok.v]

\* The names a C expression mentions.
RECURSIVE CNames(_)
CNames(cx) ==
    CASE cx.c = "name" -> {cx.n}
      [] cx.c = "getSize" -> {cx.n}
      [] cx.c = "getIn" -> {cx.of}
      [] cx.c = "bin" -> CNames(cx.l) \cup CNames(cx.r)
      [] OTHER -> {}

(***************************************************************************)
(* The Emitter (emit.py).  An Emitter value carries the two sets of the    *)
(* object, the text produced so far by the running emit_apply_op call, the *)
(* exception that ended it ("none" while it runs) and the value returned   *)
(* by the last _get_free_name call.                                        *)
(***************************************************************************)
NameCap == 1000

EmitterInit == [variables |-> {}, declared_vars |-> {}, out |-> <<>>, err |-> "none", ret |-> NoName, warnings |-> <<>>]

Raise(e, kind) == IF e.err = "none" THEN [e EXCEPT !.err = kind] ELSE e

Out(e, line) == IF e.err = "none" THEN [e EXCEPT !.out = Append(@, line)] ELSE e

RECURSIVE FreeIndexFrom(_, _, _)
FreeIndexFrom(variables, prefix, i) ==
    IF i >= NameCap THEN NoIdx
    ELSE IF Fresh(prefix, i) \notin variables THEN i
    ELSE FreeIndexFrom(variables, prefix, i + 1)

\* A generator that hands out a name without recording it.
GetFreeNameUnrecorded(e, prefix) ==
    IF e.err # "none" THEN e
    ELSE [e EXCEPT !.ret = Fresh(prefix, FreeIndexFrom(e.variables, prefix, 0))]

GetFreeName(e, prefix) ==
    IF e.err # "none" THEN e
    ELSE LET i == FreeIndexFrom(e.variables, prefix, 0)
         IN  IF i = NoIdx THEN Raise(e, "ValueError: Too many variables in use!")
             ELSE [e EXCEPT !.variables = @ \cup {Fresh(prefix, i)}, !.ret = Fresh(prefix, i)]

(***************************************************************************)
(* Emitted lines.                                                          *)
(***************************************************************************)
\* "// Checks <pretty>"
LComment(ind) == [k |-> "comment", ind |-> ind]

\* "auto <fn> = [&](Varnode* <l>, Varnode* <r>) -> int4 {"
LLambdaOpen(ind, fn, l, r) == [k |-> "lambda_open", ind |-> ind, fn |-> fn, l |-> l, r |-> r]

\* "[Varnode* ]<name> = <src>;"
LAssign(ind, decl, name, src) == [k |-> "assign", ind |-> ind, decl |-> decl, name |-> name, src |-> src]

\* "Varnode* <name>;"
LDeclare(ind, name) == [k |-> "declare", ind |-> ind, name |-> name]

\* "if (<left> <op> <right>) return 0;"
LCheck(ind, left, op, right) == [k |-> "check", ind |-> ind, left |-> left, op |-> op, right |-> right]

\* "if (<pcode>->code() != CPUI_<opname>) return 0;"
LCheckCode(ind, pcode, opname) == [k |-> "check_code", ind |-> ind, pcode |-> pcode, opname |-> opname]

\* "uintb masked_const = <val> & ((((uintb) 1) << (8 * <size>)) - 1);"
LMaskedConst(ind, val, size) == [k |-> "masked_const", ind |-> ind, val |-> val, size |-> size]

\* "if (! <target>->constantMatch(<val>)) return 0;"
LConstantMatch(ind, target, val) == [k |-> "constant_match", ind |-> ind, target |-> target, val |-> val]

\* "if (! <v>->isWritten()) return 0;"
LIsWritten(ind, v) == [k |-> "is_written", ind |-> ind, v |-> v]

\* "PcodeOp* <name> = <v>->getDef();"
LGetDef(ind, name, v) == [k |-> "get_def", ind |-> ind, name |-> name, v |-> v]

\* "return <v>;"
LReturn(ind, v) == [k |-> "return", ind |-> ind, v |-> v]

\* "};"
LLambdaClose(ind) == [k |-> "lambda_close", ind |-> ind]

\* A guard that calls the helper with one ordering only.
LGuardOneOrdering(ind, fn, a, b) == [k |-> "guard", ind |-> ind, fn |-> fn, first |-> <<a, b>>, second |-> <<a, b>>]

\* "if ((! <fn>(<a>, <b>)) && (! <fn>(<b>, <a>)))", the line before "  return 0;"
LGuard(ind, fn, a, b) == [k |-> "guard", ind |-> ind, fn |-> fn, first |-> <<a, b>>, second |-> <<b, a>>]

(***************************************************************************)
(* Match side (emit.py:126-273).                                           *)
(***************************************************************************)
EmitDeclareVar(e, variable) ==
    IF e.err # "none" THEN e
    ELSE Out([e EXCEPT !.declared_vars = @ \cup {variable.name}], LDeclare(2, variable.name))

EmitCreateVarnode(e, var_name, var_source, num_indent) ==
    Out(e, LAssign(num_indent, var_name \notin e.declared_vars, var_name, var_source))

\* const_val._size: a TOK_NUMBER carries the size it was built with, a binary
\* operation the class attribute 8 (an int); nothing else has the attribute.
HasSizeAttr(const_val) == const_val.t \in {"NUM", "BINOP"}

SizeAttr(const_val) == IF const_val.t = "BINOP" THEN [t |-> "INT", v |-> 8] ELSE const_val.size

\* Python's  size == 8 : true of the int 8 only, never of the str "8" nor of a TOK_SIZEOF.
PyEq8(size) == size.t = "INT" /\ size.v = 8

EmitCheckConstantEqual(e, varnode_name, const_val, num_indent) ==
    IF e.err # "none" THEN e
    ELSE IF ~HasSizeAttr(const_val) THEN Raise(e, "AttributeError: no attribute '_size'")
    ELSE IF PyEq8(SizeAttr(const_val)) THEN Out(e, LConstantMatch(num_indent, varnode_name, ToC(const_val)))
    ELSE IF SizeAttr(const_val).t # "SIZEOF" THEN Raise(e, "AttributeError: 'str' object has no attribute 'to_c'")
    ELSE Out(Out(e, LMaskedConst(num_indent, ToC(const_val), ToC(SizeAttr(const_val)))),
             LConstantMatch(num_indent, varnode_name, CName(MaskedName)))

RECURSIVE EmitCheckOpcodeChildren(_, _, _, _)
RECURSIVE EmitCheckArgs(_, _, _, _, _, _)
RECURSIVE EmitCheckOpcode(_, _, _, _)

EmitCheckOpcode(e, varnode, opcode, num_indent) ==
    IF e.err # "none" THEN e
    ELSE LET e1 == Out(e, LIsWritten(num_indent, ToC(varnode)))
             e2 == GetFreeName(e1, "temp_pcode")
             e3 == Out(e2, LGetDef(num_indent, e2.ret, ToC(varnode)))
             e4 == Out(e3, LCheckCode(num_indent, e2.ret, opcode.name))
         IN  EmitCheckOpcodeChildren(e4, e2.ret, opcode, num_indent)

\* An argument loop that binds a variable at every occurrence.
EmitCheckArgAlwaysBinding(e, target, arg, i, indentation, params) ==
    LET is_commutative == params # <<>>
        target_arg == IF is_commutative THEN CName(params[i + 1]) ELSE CGetIn(target, i)
    IN  CASE arg.t = "VAR" ->
               EmitCreateVarnode([e EXCEPT !.variables = @ \cup {arg.name}], arg.name, target_arg, indentation)
          [] arg.t = "OP" ->
               IF is_commutative
               THEN EmitCheckOpcode(e, TOK_VAR(target_arg.n), arg, indentation)
               ELSE LET e1 == GetFreeName(e, "autovar")
                        e2 == EmitCreateVarnode(e1, e1.ret, target_arg, indentation)
                    IN  EmitCheckOpcode(e2, TOK_VAR(e1.ret), arg, indentation)
          [] OTHER -> EmitCheckConstantEqual(e, target_arg, arg, indentation)

\* One iteration of the loop over opcode._args (emit.py:219-258) for argument i.
EmitCheckArg(e, target, arg, i, indentation, params) ==
    LET is_commutative == params # <<>>
        target_arg == IF is_commutative THEN CName(params[i + 1]) ELSE CGetIn(target, i)
    IN  CASE arg.t = "VAR" ->
               IF arg.name \in e.variables
               THEN Out(e, LCheck(indentation, target_arg, "!=", CName(arg.name)))
               ELSE EmitCreateVarnode([e EXCEPT !.variables = @ \cup {arg.name}], arg.name, target_arg, indentation)
          [] arg.t = "BINOP" -> EmitCheckConstantEqual(e, target_arg, arg, indentation)
          [] arg.t = "OP" ->
               IF is_commutative
               THEN EmitCheckOpcode(e, TOK_VAR(target_arg.n), arg, indentation)
               ELSE LET e1 == GetFreeName(e, "autovar")
                        e2 == EmitCreateVarnode(e1, e1.ret, target_arg, indentation)
                    IN  EmitCheckOpcode(e2, TOK_VAR(e1.ret), arg, indentation)
          [] arg.t = "NUM" -> EmitCheckConstantEqual(e, target_arg, arg, indentation)
          [] OTHER -> Raise(e, "ValueError: Unsupported OPNAME argument type")

EmitCheckArgs(e, target, opcode, i, indentation, params) ==
    IF e.err # "none" \/ i >= Len(opcode.args) THEN e
    ELSE IF params # <<>> /\ i >= Len(params) THEN Raise(e, "IndexError: tuple index out of range")
    ELSE EmitCheckArgs(EmitCheckArg(e, target, opcode.args[i + 1], i, indentation, params),
                       target, opcode, i + 1, indentation, params)

\* The commutative case after the loop over the arguments (emit.py:259-273): e is
\* the emitter as the loop leaves it.
EmitCommutativeCall(e, target, func_name, indentation) ==
    IF e.err # "none" THEN e
    ELSE LET e6 == GetFreeName(e, "autovar")
             e7 == GetFreeName(e6, "autovar")
             e8 == Out(Out(e7, LReturn(indentation + 2, 1)), LLambdaClose(indentation))
             e9 == EmitCreateVarnode(e8, e6.ret, CGetIn(target, 0), indentation)
             e10 == EmitCreateVarnode(e9, e7.ret, CGetIn(target, 1), indentation)
         IN  Out(Out(e10, LGuard(indentation, func_name, e6.ret, e7.ret)), LReturn(indentation + 2, 0))

EmitCheckOpcodeChildren(e, target, opcode, indentation) ==
    IF e.err # "none" THEN e
    ELSE LET e0 == Out(e, LComment(indentation))
         IN  IF opcode.name \in COMMUTATIVE_OP_NAMES
             THEN LET e1 == GetFreeName(e0, CheckPrefix(opcode.name))
                      e2 == GetFreeName(e1, "autovar_left")
                      e3 == GetFreeName(e2, "autovar_right")
                      e4 == Out(e3, LLambdaOpen(indentation, e1.ret, e2.ret, e3.ret))
                  IN  EmitCommutativeCall(EmitCheckArgs(e4, target, opcode, 0, indentation + 2, <<e2.ret, e3.ret>>),
                                          target, e1.ret, indentation)
             ELSE EmitCheckArgs(e0, target, opcode, 0, indentation, <<>>)

(***************************************************************************)
(* Constraints (tokens.py:230-332, emit.py:138-182).                       *)
(***************************************************************************)
\* "auto <fn> = [&](int4 <option>) -> int4 {"
LOrOpen(ind, fn, option) == [k |-> "or_open", ind |-> ind, fn |-> fn, option |-> option]

\* "if (<option> == <i>) {"  (first TRUE)  and  "} else if (<option> == <i>) {"
LIfOption(ind, first, option, i) == [k |-> "if_option", ind |-> ind, first |-> first, option |-> option, i |-> i]

\* "} else {"
LElse(ind) == [k |-> "else", ind |-> ind]

\* "}"
LBlockClose(ind) == [k |-> "block_close", ind |-> ind]

\* "int4 <it>;"
LDeclareInt(ind, it) == [k |-> "declare_int", ind |-> ind, name |-> it]

\* "for (<it> = 0; <it> < <n>; <it>++) {;"
LFor(ind, it, n) == [k |-> "for", ind |-> ind, it |-> it, n |-> n]

\* "if (<fn>(<it>) != 0)", the line before "    break;"
LIfCall(ind, fn, it) == [k |-> "if_call", ind |-> ind, fn |-> fn, it |-> it]

\* "break;"
LBreak(ind) == [k |-> "break", ind |-> ind]

\* "if (<it> == <n>)", the line before "  return 0;"
LIfEqual(ind, it, n) == [k |-> "if_equal", ind |-> ind, it |-> it, n |-> n]

\* "return 0;" with no line break after it (tokens.py:277, 296)
LReturnRaw(ind) == [k |-> "return_raw", ind |-> ind, v |-> 0]

\* "if ((! <v>->isConstant()) return 0;" with no line break after it (emit.py:154)
LIsConstant(ind, v) == [k |-> "is_constant", ind |-> ind, v |-> v]

\* "if ((! <v>->isConstant()) || (<v>->getOffset() <op> <val>)) return 0;"
LCheckConstant(ind, v, op, val) == [k |-> "check_constant", ind |-> ind, v |-> v, op |-> op, val |-> val]

\* A Python str handed over where a token is expected.
PyStr(c) == [t |-> "PYSTR", c |-> c]

EmitCheckIsConstant(e, varnode_name, num_indent) == Out(e, LIsConstant(num_indent, varnode_name))

EmitCheckConstant(e, varnode_name, op, const_val, num_indent) ==
    IF e.err # "none" THEN e
    ELSE IF ~HasSizeAttr(const_val) THEN Raise(e, "AttributeError: no attribute '_size'")
    ELSE IF PyEq8(SizeAttr(const_val)) THEN Out(e, LCheckConstant(num_indent, varnode_name, op, ToC(const_val)))
    ELSE IF SizeAttr(const_val).t # "SIZEOF" THEN Raise(e, "AttributeError: 'str' object has no attribute 'to_c'")
    ELSE Out(Out(e, LMaskedConst(num_indent, ToC(const_val), ToC(SizeAttr(const_val)))),
             LCheckConstant(num_indent, varnode_name, op, CName(MaskedName)))

EmitCheckConstantLess(e, varnode_name, const_val, num_indent) == EmitCheckConstant(e, varnode_name, ">=", const_val, num_indent)

EmitCheckConstantGreater(e, varnode_name, const_val, num_indent) == EmitCheckConstant(e, varnode_name, "<=", const_val, num_indent)

\* Python's ==  on two tokens: TOK_VAR compares names (tokens.py:50-51), every
\* other class compares identities, and the parser builds each token anew.
PyTokEq(a, b) == a.t = "VAR" /\ b.t = "VAR" /\ a.name = b.name

\* The "else if" branches (tokens.py:252-256) for the alternatives i .. N-2.
RECURSIVE EmitOrBranches(_, _, _, _, _)
EmitOrBranches(e, constr, option_name, i, indent_level) ==
    IF e.err # "none" \/ i >= Len(constr.right.elements) - 1 THEN e
    ELSE EmitOrBranches(
             EmitCheckOpcode(Out(e, LIfOption(indent_level + 2, FALSE, option_name, i)),
                             constr.left, constr.right.elements[i + 1], indent_level + 4),
             constr, option_name, i + 1, indent_level)

\* The result of a to_check_c call: the emitter, the returned indent level and
\* the constraint (its _or_func_name is assigned by the call).
CheckResult(e, ind, constr) == [e |-> e, ind |-> ind, constr |-> constr]

ToCheckCOr(constr, e, indent_level) ==
    IF constr.cmp # "=" THEN CheckResult(Raise(e, "AssertionError: Only equality constraints are supported for OPCODE_OR."), indent_level, constr)
    ELSE LET e1 == GetFreeName(e, "or_func")
             e2 == GetFreeName(e1, "option_id")
             c1 == [constr EXCEPT !.or_func_name = e1.ret]
             n == Len(constr.right.elements)
         IN  IF \E j \in 1..n : constr.right.elements[j].t = "VAR"
             THEN CheckResult(Raise(e2, "AssertionError: Comparing two variables for equality is not supported"), indent_level, c1)
             ELSE LET e3 == Out(e2, LOrOpen(indent_level, e1.ret, e2.ret))
                      e4 == Out(e3, LIfOption(indent_level + 2, TRUE, e2.ret, 0))
                      e5 == EmitCheckOpcode(e4, constr.left, constr.right.elements[1], indent_level + 4)
                      e6 == EmitOrBranches(e5, constr, e2.ret, 1, indent_level)
                      e7 == Out(e6, LElse(indent_level + 2))
                      e8 == EmitCheckOpcode(e7, constr.left, constr.right.elements[n], indent_level + 4)
                      e9 == Out(e8, LBlockClose(indent_level + 2))
                  IN  CheckResult(e9, indent_level + 2, c1)

ToCheckCEqual(constr, e, indent_level) ==
    IF PyTokEq(constr.left, constr.right) THEN e
    ELSE IF constr.right.t = "OP" THEN EmitCheckOpcode(e, constr.left, constr.right, indent_level)
    ELSE IF constr.right.t = "VAR" THEN Raise(e, "AssertionError: Comparing two variables for equality is not supported")
    ELSE EmitCheckConstantEqual(e, ToC(constr.left), PyStr(ToC(constr.right)), indent_level)

ToCheckCLess(constr, e, indent_level) ==
    IF PyTokEq(constr.left, constr.right)
    THEN Out([e EXCEPT !.warnings = Append(@, "Warning: less-than constraint between two equal sides")], LReturnRaw(indent_level))
    ELSE IF constr.right.t = "VAR"
    THEN IF constr.right.name \notin e.variables THEN Raise(e, "AssertionError: Cannot create new variable in constraint")
         ELSE EmitCheckConstantLess(EmitCheckIsConstant(e, constr.right.name, indent_level),
                                    ToC(constr.left), PyStr([c |-> "getOffset", n |-> constr.right.name]), indent_level)
    ELSE IF constr.right.t \in {"BINOP", "NUM"}
    THEN EmitCheckConstantLess(e, ToC(constr.left), PyStr(ToC(constr.right)), indent_level)
    ELSE Raise(e, "NameError: name 'check_val' is not defined")

ToCheckCGreater(constr, e, indent_level) ==
    IF PyTokEq(constr.left, constr.right)
    THEN Out([e EXCEPT !.warnings = Append(@, "Warning: greater-than constraint between two equal sides")], LReturnRaw(indent_level))
    ELSE IF constr.right.t = "VAR"
    THEN IF constr.right.name \notin e.variables THEN Raise(e, "AssertionError: Cannot create new variable in constraint")
         ELSE EmitCheckConstantGreater(EmitCheckIsConstant(e, constr.right.name, indent_level),
                                       ToC(constr.left), PyStr([c |-> "getOffset", n |-> constr.right.name]), indent_level)
    ELSE IF constr.right.t \in {"BINOP", "NUM"}
    THEN EmitCheckConstantGreater(e, ToC(constr.left), PyStr(ToC(constr.right)), indent_level)
    ELSE Raise(e, "NameError: name 'check_val' is not defined")

ToCheckC(constr, e, indent_level) ==
    IF e.err # "none" THEN CheckResult(e, indent_level, constr)
    ELSE IF constr.right.t = "OR" THEN ToCheckCOr(constr, e, indent_level)
    ELSE CASE constr.cmp = "=" -> CheckResult(ToCheckCEqual(constr, e, indent_level), indent_level, constr)
           [] constr.cmp = "<" -> CheckResult(ToCheckCLess(constr, e, indent_level), indent_level, constr)
           [] constr.cmp = ">" -> CheckResult(ToCheckCGreater(constr, e, indent_level), indent_level, constr)
           [] OTHER -> CheckResult(Raise(e, "NameError: name 'check_val' is not defined"), indent_level, constr)

ToCheckCEnd(constr, e, indent_level) ==
    IF e.err # "none" THEN e
    ELSE IF constr.right.t # "OR" THEN Raise(e, "AssertionError")
    ELSE LET e1 == GetFreeName(e, "i")
             n == Len(constr.right.elements)
             e2 == Out(e1, LBlockClose(indent_level))
             e3 == Out(e2, LDeclareInt(indent_level, e1.ret))
             e4 == Out(e3, LFor(indent_level, e1.ret, n))
             e5 == Out(e4, LIfCall(indent_level + 2, constr.or_func_name, e1.ret))
             e6 == Out(e5, LBreak(indent_level + 4))
             e7 == Out(e6, LBlockClose(indent_level))
             e8 == Out(e7, LIfEqual(indent_level, e1.ret, n))
             e9 == Out(e8, LReturn(indent_level + 2, 0))
         IN  Out(e9, LBlockClose(indent_level))

(***************************************************************************)
(* get_variables and get_size (tokens.py).                                 *)
(***************************************************************************)
RECURSIVE GetVariables(_)
RECURSIVE GetVariablesOfSeq(_, _)

\* Depth first, left to right, duplicates kept.
GetVariables(tok) ==
    CASE tok.t = "VAR" -> <<tok>>
      [] tok.t = "SIZEOF" -> <<tok.var>>
      [] tok.t = "NUM" -> IF tok.size.t = "SIZEOF" THEN GetVariables(tok.size) ELSE <<>>
      [] tok.t = "BINOP" -> GetVariables(tok.left) \o GetVariables(tok.right)
      [] tok.t = "OP" -> GetVariablesOfSeq(tok.args, 1)
      [] tok.t = "OR" -> GetVariablesOfSeq(tok.elements, 1)
      [] tok.t = "CONSTR" -> GetVariables(tok.left) \o GetVariables(tok.right)
      [] OTHER -> <<>>

GetVariablesOfSeq(toks, i) ==
    IF i > Len(toks) THEN <<>> ELSE GetVariables(toks[i]) \o GetVariablesOfSeq(toks, i + 1)

SAME_SIZE_OP_NAMES == {"COPY", "INT_ADD", "INT_SUB", "INT_2COMP", "INT_NEGATE", "INT_XOR", "INT_AND", "INT_OR", "INT_LEFT", "INT_RIGHT", "INT_SRIGHT", "INT_MULT", "INT_DIV", "INT_REM", "INT_SDIV", "INT_SREM", "FLOAT_ADD", "FLOAT_SUB", "FLOAT_MULT", "FLOAT_DIV", "FLOAT_NEG", "FLOAT_ABS", "FLOAT_SQRT", "FLOAT_CEIL", "FLOAT_FLOOR", "FLOAT_ROUND"}

BOOL_OP_NAMES == {"INT_EQUAL", "INT_NOTEQUAL", "INT_LESS", "INT_SLESS", "INT_LESSEQUAL", "INT_SLESSEQUAL", "INT_CARRY", "INT_SCARRY", "INT_SBORROW", "BOOL_NEGATE", "BOOL_XOR", "BOOL_AND", "BOOL_OR", "FLOAT_EQUAL", "FLOAT_NOTEQUAL", "FLOAT_LESS", "FLOAT_LESSEQUAL", "FLOAT_NAN"}

\* A get_size result: the exception it raised ("none" when it returned) and the
\* value, of kind "None", "int" or "tuple".
SizeNone == [err |-> "none", ty |-> "None", v |-> 0]

SizeInt(v) == [err |-> "none", ty |-> "int", v |-> v]

SizeErr(kind) == [err |-> kind, ty |-> "None", v |-> 0]

RECURSIVE GetSize(_)
GetSize(tok) ==
    CASE tok.t = "VAR" -> SizeNone
      [] tok.t = "SIZEOF" -> SizeInt(8)
      [] tok.t = "NUM" -> SizeErr("NotImplementedError: Tokens must implement 'get_size'.")
      [] tok.t = "BINOP" -> SizeErr("NameError: name 'left' is not defined")
      [] tok.t = "OP" ->
           IF tok.name = "PIECE"
           THEN LET a == GetSize(tok.args[1])
                    b == IF Len(tok.args) >= 2 THEN GetSize(tok.args[2]) ELSE SizeErr("IndexError: tuple index out of range")
                IN  IF a.err # "none" THEN a
                    ELSE IF b.err # "none" THEN b
                    ELSE IF a.ty = "int" /\ b.ty = "int" THEN [err |-> "none", ty |-> "tuple", v |-> a.v + b.v]
                    ELSE SizeErr("TypeError: unsupported operand type(s) for +")
           ELSE IF tok.name \in SAME_SIZE_OP_NAMES THEN GetSize(tok.args[1])
           ELSE IF tok.name \in BOOL_OP_NAMES THEN SizeInt(1)
           ELSE SizeNone
      [] OTHER -> SizeNone

(***************************************************************************)
(* Rewrite side (emit.py:54-124).                                          *)
(***************************************************************************)
\* "data.opSetOpcode(<target>, CPUI_<opname>);"
LSetOpcode(ind, target, opname) == [k |-> "set_opcode", ind |-> ind, target |-> target, opname |-> opname]

\* "op->insertInput(<i>);"
LInsertInput(ind, i) == [k |-> "insert_input", ind |-> ind, i |-> i]

\* "data.opRemoveInput(op, <i>);"
LRemoveInput(ind, i) == [k |-> "remove_input", ind |-> ind, i |-> i]

\* "PcodeOp* <name> = data.newOp(<n>, <parent>->getAddr());"
LNewOp(ind, name, n, parent) == [k |-> "new_op", ind |-> ind, name |-> name, n |-> n, parent |-> parent]

\* "Varnode* <name> = data.newUniqueOut(<size>, <target>);"
LNewUniqueOut(ind, name, size, target) == [k |-> "new_unique_out", ind |-> ind, name |-> name, size |-> size, target |-> target]

\* An insertion with the two ops exchanged.
LInsertBeforeExchanged(ind, new, parent) == [k |-> "insert_before", ind |-> ind, new |-> parent, parent |-> new]

\* "data.opInsertBefore(<new>, <parent>);"
LInsertBefore(ind, new, parent) == [k |-> "insert_before", ind |-> ind, new |-> new, parent |-> parent]

\* "data.opSetInput(<parent>, <v>, <i>);"
LSetInput(ind, parent, v, i) == [k |-> "set_input", ind |-> ind, parent |-> parent, v |-> v, i |-> i]

\* "Varnode* <name> = data.newConstant(<size>, <val>);"
LNewConstant(ind, name, size, val) == [k |-> "new_constant", ind |-> ind, name |-> name, size |-> size, val |-> val]

EmitCreateVar(e, variable, parent_op_name, input_number) ==
    Out(e, LSetInput(2, parent_op_name, ToC(variable), input_number))

EmitCreateConst(e, constant, parent_op_name, input_number) ==
    IF e.err # "none" THEN e
    ELSE LET e1 == GetFreeName(e, "out_const")
         IN  IF constant.t # "NUM" THEN Raise(e1, "AttributeError: no attribute 'size_to_c'")
             ELSE Out(Out(e1, LNewConstant(2, e1.ret, ToC(constant.size), ToC(constant))),
                      LSetInput(2, OpName, CName(e1.ret), input_number))

RECURSIVE EmitCreateOpcode(_, _, _, _)
RECURSIVE EmitCreateArgs(_, _, _, _)

EmitCreateOpcode(e, opcode, parent_op_name, input_num) ==
    IF e.err # "none" THEN e
    ELSE LET e1 == GetFreeName(e, "out_op")
             e2 == GetFreeName(e1, "out_varnode")
             size == GetSize(opcode)
             e3 == Out(e2, LNewOp(2, e1.ret, Len(opcode.args), parent_op_name))
             e4 == Out(e3, LSetOpcode(2, e1.ret, opcode.name))
             e5 == IF size.err # "none" THEN Raise(e4, size.err)
                   ELSE Out(e4, LNewUniqueOut(2, e2.ret, size, e1.ret))
             e6 == Out(e5, LInsertBefore(2, e1.ret, parent_op_name))
             e7 == Out(e6, LSetInput(2, parent_op_name, CName(e2.ret), input_num))
         IN  EmitCreateArgs(e7, opcode, e1.ret, 0)

\* The loop over opcode._args (emit.py:107-113) from argument i on.
EmitCreateArgs(e, opcode, new_op_name, i) ==
    IF e.err # "none" \/ i >= Len(opcode.args) THEN e
    ELSE LET arg == opcode.args[i + 1]
             e1 == CASE arg.t = "OP" -> EmitCreateOpcode(e, arg, new_op_name, i)
                     [] arg.t = "VAR" -> EmitCreateVar(e, arg, new_op_name, i)
                     [] OTHER -> EmitCreateConst(e, arg, new_op_name, i)
         IN  EmitCreateArgs(e1, opcode, new_op_name, i + 1)

\* The loop over replace_expr.get_args() (emit.py:72-78) from argument i on.
RECURSIVE EmitChangeInputs(_, _, _)
EmitChangeInputs(e, replace_expr, i) ==
    IF e.err # "none" \/ i >= Len(replace_expr.args) THEN e
    ELSE LET arg == replace_expr.args[i + 1]
             e1 == CASE arg.t = "OP" -> EmitCreateOpcode(e, arg, OpName, i)
                     [] arg.t = "VAR" -> EmitCreateVar(e, arg, OpName, i)
                     [] OTHER -> Raise(e, "TypeError: bad operand type for unary -: 'str'")
         IN  EmitChangeInputs(e1, replace_expr, i + 1)

\* range(lo, hi) as a loop emitting one line per index.
RECURSIVE EmitInsertInputs(_, _, _)
EmitInsertInputs(e, i, hi) ==
    IF i >= hi THEN e ELSE EmitInsertInputs(Out(e, LInsertInput(2, i)), i + 1, hi)

RECURSIVE EmitRemoveInputs(_, _, _)
EmitRemoveInputs(e, i, hi) ==
    IF i >= hi THEN e ELSE EmitRemoveInputs(Out(e, LRemoveInput(2, i)), i + 1, hi)

\* An adjustment that never removes an input.
EmitInsertsOnly(e, num_match_args, num_replace_args) ==
    EmitInsertInputs(e, num_match_args, num_replace_args)

\* emit.py:63-69
EmitAdjustArity(e, num_match_args, num_replace_args) ==
    EmitRemoveInputs(EmitInsertInputs(e, num_match_args, num_replace_args), num_replace_args, num_match_args)

\* A rewrite without the assertion on the replacement root.
EmitRewriteUnasserted(e, match_expr, replace_expr) ==
    IF e.err # "none" THEN e
    ELSE IF replace_expr.t # "OP" THEN Out(Out(e, LReturn(2, 1)), LBlockClose(0))
    ELSE Out(Out(EmitChangeInputs(EmitAdjustArity(e, Len(match_expr.args), Len(replace_expr.args)), replace_expr, 0),
                 LReturn(2, 1)), LBlockClose(0))

\* emit.py:54-84
EmitRewrite(e, match_expr, replace_expr) ==
    IF e.err # "none" THEN e
    ELSE IF replace_expr.t # "OP" THEN Raise(e, "AssertionError: The replace expression must be an OPCODE")
    ELSE LET e1 == IF replace_expr.name # match_expr.name THEN Out(e, LSetOpcode(2, OpName, replace_expr.name)) ELSE e
             e2 == EmitAdjustArity(e1, Len(match_expr.args), Len(replace_expr.args))
             e3 == EmitChangeInputs(e2, replace_expr, 0)
         IN  Out(Out(e3, LReturn(2, 1)), LBlockClose(0))

(***************************************************************************)
(* emit_apply_op (emit.py:9-86).                                           *)
(***************************************************************************)
\* "int4 RuleSimplify<name>::applyOp(PcodeOp *op, Funcdata &data)" and "{"
LFuncOpen == [k |-> "func_open", ind |-> 0]

RECURSIVE EmitDeclareVars(_, _, _)
EmitDeclareVars(e, variables, i) ==
    IF i > Len(variables) THEN e ELSE EmitDeclareVars(EmitDeclareVar(e, variables[i]), variables, i + 1)

\* The loop over the constraints (emit.py:35-44): st carries the emitter, the
\* constraints (their _or_func_name as assigned), the current indent level and
\* finish_constraints as pairs <<indent level, index of the constraint>>.
\* AfterConstraint is emit.py:37-44 once to_check_c has returned r for constraint i.
AfterConstraint(st, i, r) ==
    LET changed == r.e.err = "none" /\ r.ind # st.indent_level
    IN  [e |-> r.e,
         constraints |-> [st.constraints EXCEPT ![i] = r.constr],
         indent_level |-> IF changed THEN r.ind ELSE st.indent_level,
         finish |-> IF changed THEN Append(st.finish, <<st.indent_level, i>>) ELSE st.finish]

RECURSIVE EmitConstraints(_, _)
EmitConstraints(st, i) ==
    IF st.e.err # "none" \/ i > Len(st.constraints) THEN st
    ELSE EmitConstraints(AfterConstraint(st, i, ToCheckC(st.constraints[i], st.e, st.indent_level)), i + 1)

\* The loop over reversed(finish_constraints) (emit.py:46-47), from entry j down.
RECURSIVE EmitFinishConstraints(_, _, _, _)
EmitFinishConstraints(e, constraints, finish, j) ==
    IF j < 1 THEN e
    ELSE EmitFinishConstraints(ToCheckCEnd(constraints[finish[j][2]], e, finish[j][1]), constraints, finish, j - 1)

\* The rewrite emitted before the loop over reversed(finish_constraints).
EmitRewriteBeforeClosing(st, match_expr, replace_expr) ==
    [e |-> EmitFinishConstraints(EmitRewrite(st.e, match_expr, replace_expr), st.constraints, st.finish, Len(st.finish)),
     constraints |-> st.constraints]

\* emit.py:46-86: st is what the loop over the constraints leaves.
EmitAfterConstraints(st, match_expr, replace_expr) ==
    [e |-> EmitRewrite(EmitFinishConstraints(st.e, st.constraints, st.finish, Len(st.finish)), match_expr, replace_expr),
     constraints |-> st.constraints]

\* The result of emit_apply_op: the emitter as the call leaves it (its err names
\* the exception when the call raised) and the constraints as the call leaves them.
EmitApplyOp(e, match_expr, constraints, replace_expr) ==
    LET e1 == Out(e, LFuncOpen)
        e2 == EmitDeclareVars(e1, GetVariables(replace_expr), 1)
        e3 == EmitCheckOpcodeChildren(e2, OpName, match_expr, 2)
    IN  EmitAfterConstraints(EmitConstraints([e |-> e3, constraints |-> constraints, indent_level |-> 2, finish |-> <<>>], 1),
                             match_expr, replace_expr)

(***************************************************************************)
(* to_pretty (tokens.py) and the pretty form of a rule (rule.py:57-72).    *)
(* A text is the sequence of its lexemes; white space carries nothing.     *)
(***************************************************************************)
LexVar(id) == [l |-> "var", id |-> id]

LexOpcode(name) == [l |-> "opcode", name |-> name]

LexNumber(val) == [l |-> "number", val |-> val]

LexSym(s) == [l |-> "sym", s |-> s]

RECURSIVE ToPretty(_)
RECURSIVE ToPrettyJoin(_, _, _)

\* sep.join(a.to_pretty() for a in toks), from element i on.
ToPrettyJoin(toks, sep, i) ==
    IF i > Len(toks) THEN <<>>
    ELSE IF i = Len(toks) THEN ToPretty(toks[i])
    ELSE ToPretty(toks[i]) \o <<LexSym(sep)>> \o ToPrettyJoin(toks, sep, i + 1)

ToPretty(tok) ==
    CASE tok.t = "VAR" -> <<LexVar(tok.name.id)>>
      [] tok.t = "SIZEOF" -> <<LexSym("|")>> \o ToPretty(tok.var) \o <<LexSym("|")>>
      [] tok.t = "NUM" ->
           IF tok.size.t = "STR"
           THEN IF tok.size.v = 8 THEN <<LexNumber(tok.val)>>
                ELSE <<LexNumber(tok.val), LexSym(":"), LexNumber(tok.size.v)>>
           ELSE <<LexNumber(tok.val), LexSym(":")>> \o ToPretty(tok.size)
      [] tok.t = "BINOP" -> ToPretty(tok.left) \o <<LexSym(tok.op)>> \o ToPretty(tok.right) \o <<LexSym(")")>>
      [] tok.t = "OP" -> <<LexOpcode(tok.name), LexSym("(")>> \o ToPrettyJoin(tok.args, ",", 1) \o <<LexSym(")")>>
      [] tok.t = "OR" -> ToPrettyJoin(tok.elements, "|", 1)
      [] tok.t = "CONSTR" -> ToPretty(tok.left) \o <<LexSym(tok.cmp)>> \o ToPretty(tok.right)

\* The constraints' lines, one after the other (rule.py:70).
RECURSIVE PrettyConstraints(_, _)
PrettyConstraints(constraints, i) ==
    IF i > Len(constraints) THEN <<>> ELSE ToPretty(constraints[i]) \o PrettyConstraints(constraints, i + 1)

\* _get_pretty_rule: the rule's name is not part of the pretty form.
GetPrettyRule(r) ==
    IF r.constraints = <<>>
    THEN ToPretty(r.match_expr) \o <<LexSym("=>")>> \o ToPretty(r.replace_expr)
    ELSE ToPretty(r.match_expr) \o <<LexSym(":-"), LexSym("{")>> \o PrettyConstraints(r.constraints, 1)
         \o <<LexSym("}"), LexSym("=>")>> \o ToPretty(r.replace_expr)

(***************************************************************************)
(* Rule.emit_c_code (rule.py:11-19).  Every call builds its own Emitter.   *)
(***************************************************************************)
Rule(name, match_expr, constraints, replace_expr) == [name |-> name, match_expr |-> match_expr, constraints |-> constraints, replace_expr |-> replace_expr]

NoTok == [t |-> "NONE"]

NoRule == Rule("", NoTok, <<>>, NoTok)

NoCode == [explanation |-> <<>>, get_oplist |-> "", apply_op |-> <<>>]

\* A call that goes on with the object the earlier call left.
StaleEmitter(previous) == previous

\* emit.Emitter(): the object the call works with, whatever object an earlier call left.
NewEmitter(previous) == EmitterInit

\* The result of emit_c_code on rule r: the emitter and the constraints as the
\* call leaves them and, when no exception ended the call, the returned text.
EmitCCodeReturn(r, res) ==
    [e |-> res.e,
     constraints |-> res.constraints,
     code |-> [explanation |-> GetPrettyRule(r), get_oplist |-> r.match_expr.name, apply_op |-> res.e.out]]

EmitCCodeResult(r, previous) ==
    EmitCCodeReturn(r, EmitApplyOp(NewEmitter(previous), r.match_expr, r.constraints, r.replace_expr))

(***************************************************************************)
(* The rules the driver is run on.  Variables x, y, a, b; z is never bound *)
(* by a match expression.                                                  *)
(***************************************************************************)
MaxArgs == 2

MaxArity == 3

MaxConstraints == 2

MaxEmits == 2

MaxCalls == 4

x == TOK_VAR(AutoVar("x"))

y == TOK_VAR(AutoVar("y"))

a == TOK_VAR(AutoVar("a"))

b == TOK_VAR(AutoVar("b"))

z == TOK_VAR(AutoVar("z"))

\* parse_number (parser.py:128-135): a number written without a size gets "8".
ParseNumber(val) == TOK_NUMBER(val, StrSize(8))

SeqsUpTo(S, n) == UNION {[1..k -> S] : k \in 1..n}

MatchAtoms == {x, y, ParseNumber(255), TOK_NUMBER(255, StrSize(1)), TOK_NUMBER(3, TOK_SIZEOF(x)),
               TOK_BINARY_OPERATION("+", x, ParseNumber(1)),
               TOK_OPCODE("INT_SUB", <<y, x>>), TOK_OPCODE("INT_XOR", <<x, y>>)}

ReplaceAtoms == {x, y, z, ParseNumber(1),
                 TOK_OPCODE("INT_SUB", <<x, TOK_NUMBER(1, StrSize(4))>>),
                 TOK_OPCODE("INT_ADD", <<x, TOK_OPCODE("INT_NEGATE", <<y>>)>>)}

Constraints == {TOK_CONSTRAINT(y, "=", TOK_OPCODE_OR(<<TOK_OPCODE("INT_XOR", <<a, b>>), TOK_OPCODE("INT_SUB", <<a, b>>)>>)),
                TOK_CONSTRAINT(x, "=", TOK_OPCODE_OR(<<TOK_OPCODE("INT_SUB", <<a, y>>), TOK_OPCODE("INT_LEFT", <<b, y>>), TOK_OPCODE("COPY", <<y>>)>>)),
                TOK_CONSTRAINT(y, "=", TOK_OPCODE("INT_ADD", <<a, x>>)),
                TOK_CONSTRAINT(y, "=", y),
                TOK_CONSTRAINT(y, "<", y),
                TOK_CONSTRAINT(y, ">", x),
                TOK_CONSTRAINT(y, "<", TOK_BINARY_OPERATION("*", TOK_SIZEOF(x), ParseNumber(8))),
                TOK_CONSTRAINT(y, "=", ParseNumber(3)),
                TOK_CONSTRAINT(y, "<", ParseNumber(3)),
                TOK_CONSTRAINT(ParseNumber(3), "=", ParseNumber(3)),
                TOK_CONSTRAINT(ParseNumber(3), ">", ParseNumber(3))}

\* Match expressions of every shape, no constraints.
MatchRules == {Rule("R", TOK_OPCODE(n, args), <<>>, TOK_OPCODE("COPY", <<x>>)) :
                  n \in {"INT_ADD", "INT_LEFT"}, args \in SeqsUpTo(MatchAtoms, MaxArgs)}

\* Every pair of arities.
ArityRules == {Rule("R", TOK_OPCODE("INT_LEFT", [i \in 1..m |-> x]), <<>>, TOK_OPCODE(n, [i \in 1..r |-> x])) :
                  n \in {"INT_LEFT", "INT_RIGHT"}, m \in 1..MaxArity, r \in 1..MaxArity}

\* Replacements of every shape, a bare variable among them.
ReplaceRules == {Rule("R", TOK_OPCODE(n, <<x, y>>), <<>>, rep) :
                    n \in {"INT_ADD", "INT_LEFT"},
                    rep \in {x} \cup {TOK_OPCODE("INT_LEFT", args) : args \in SeqsUpTo(ReplaceAtoms, MaxArgs)}}

\* Constraint lists of every shape.
ConstraintRules == {Rule("R", TOK_OPCODE(n, <<x, y>>), cs, rep) :
                       n \in {"INT_ADD", "INT_LEFT"}, cs \in SeqsUpTo(Constraints, MaxConstraints),
                       rep \in {x, TOK_OPCODE("INT_LEFT", <<x, a>>)}}

Rules == MatchRules \cup ArityRules \cup ReplaceRules \cup ConstraintRules

(***************************************************************************)
(* The driver (rulechef.py:5-25).                                          *)
(***************************************************************************)
NoFile == [exists |-> FALSE, content |-> NoCode]

\* A file that is there before the run, holding some earlier text.
OldFile == [exists |-> TRUE, content |-> [explanation |-> <<>>, get_oplist |-> "earlier", apply_op |-> <<>>]]

Init ==
    /\ pc = "start"
    /\ out_file \in BOOLEAN
    /\ rule = NoRule
    /\ emitter = EmitterInit
    /\ code = NoCode
    /\ emits = 0
    /\ stdout = <<>>
    /\ file \in IF out_file THEN {NoFile, OldFile} ELSE {NoFile}
    /\ returned = <<>>

\* rulechef.py:17: the grammar (parser.py:61) builds the replacement from
\* pp.Or(opcode_expr, variable); whether the grammar library takes the variable as
\* an alternative is not decided by this repository, so a rule whose replacement
\* is a bare variable is either returned or refused with a parse error.
ParseDescription ==
    /\ pc = "start"
    /\ \E r \in Rules :
          \E accepted \in IF r.replace_expr.t = "VAR" THEN BOOLEAN ELSE {TRUE} :
             /\ rule' = r
             /\ pc' = IF accepted THEN "parsed" ELSE "error"
    /\ UNCHANGED <<out_file, emitter, code, emits, stdout, file, returned>>

Warning(text) == [k |-> "warning", text |-> text, code |-> NoCode]

Printed(text) == [k |-> "code", text |-> "", code |-> text]

\* rulechef.py:18, rule.py:11-19.  The warnings of tokens.py:276 and 295 are printed
\* as the call runs; an exception ends the invocation.
EmitCCode ==
    /\ pc \in {"parsed", "emitted"}
    /\ emits < MaxEmits
    /\ \E res \in {EmitCCodeResult(rule, emitter)} :
           /\ emitter' = res.e
           /\ rule' = [rule EXCEPT !.constraints = res.constraints]
           /\ stdout' = stdout \o [i \in 1..Len(res.e.warnings) |-> Warning(res.e.warnings[i])]
           /\ IF res.e.err = "none"
              THEN pc' = "emitted" /\ code' = res.code /\ emits' = emits + 1
              ELSE pc' = "error" /\ UNCHANGED <<code, emits>>
    /\ UNCHANGED <<out_file, file, returned>>

\* rulechef.py:20-22
PrintCode ==
    /\ pc = "emitted"
    /\ ~out_file
    /\ stdout' = Append(stdout, Printed(code))
    /\ pc' = "done"
    /\ UNCHANGED <<out_file, rule, emitter, code, emits, file, returned>>

\* rulechef.py:24-25
WriteFile ==
    /\ pc = "emitted"
    /\ out_file
    /\ file' = [exists |-> TRUE, content |-> code]
    /\ pc' = "done"
    /\ UNCHANGED <<out_file, rule, emitter, code, emits, stdout, returned>>

Next == ParseDescription \/ EmitCCode \/ PrintCode \/ WriteFile

Spec == Init /\ [][Next]_vars

(***************************************************************************)
(* The name generator on its own: any sequence of _get_free_name calls     *)
(* with any prefixes, interleaved with the binding of rule variables       *)
(* (emit.py:234).                                                          *)
(***************************************************************************)
Prefixes == {"autovar", "autovar_left", "out_op"}

InitNames ==
    /\ pc = "names"
    /\ out_file = FALSE
    /\ rule = NoRule
    /\ emitter = EmitterInit
    /\ code = NoCode
    /\ emits = 0
    /\ stdout = <<>>
    /\ file = NoFile
    /\ returned = <<>>

CallGetFreeName ==
    /\ Len(returned) < MaxCalls
    /\ \E prefix \in Prefixes :
          LET e == GetFreeName(emitter, prefix)
          IN  /\ emitter' = e
              /\ returned' = Append(returned, e.ret)
    /\ UNCHANGED <<pc, out_file, rule, code, emits, stdout, file>>

BindVariable ==
    /\ \E v \in {x, y} :
          /\ v.name \notin emitter.variables
          /\ emitter' = [emitter EXCEPT !.variables = @ \cup {v.name}]
    /\ UNCHANGED <<pc, out_file, rule, code, emits, stdout, file, returned>>

NextNames == CallGetFreeName \/ BindVariable

SpecNames == InitNames /\ [][NextNames]_vars

(***************************************************************************)
(* Reading the emitted C++.  Braces: the function body, a helper lambda,   *)
(* the branches of an alternatives helper and the closing loop each open   *)
(* a block; "}", "};", "} else {" and "} else if" close the innermost one. *)
(***************************************************************************)
\* The names a line declares in the block it stands in.
Declares(l) ==
    CASE l.k \in {"declare", "get_def", "declare_int", "new_op", "new_unique_out", "new_constant"} -> {l.name}
      [] l.k = "assign" -> IF l.decl THEN {l.name} ELSE {}
      [] l.k = "masked_const" -> {MaskedName}
      [] l.k \in {"lambda_open", "or_open"} -> {l.fn}
      [] OTHER -> {}

\* The names a line declares in the block it opens: the parameters.
Params(l) ==
    CASE l.k = "func_open" -> {OpName}
      [] l.k = "lambda_open" -> {l.l, l.r}
      [] l.k = "or_open" -> {l.option}
      [] OTHER -> {}

\* The names a line reads or assigns without declaring them.
Uses(l) ==
    CASE l.k = "assign" -> CNames(l.src) \cup (IF l.decl THEN {} ELSE {l.name})
      [] l.k = "check" -> CNames(l.left) \cup CNames(l.right)
      [] l.k = "check_code" -> {l.pcode}
      [] l.k = "masked_const" -> CNames(l.val) \cup CNames(l.size)
      [] l.k = "constant_match" -> CNames(l.target) \cup CNames(l.val)
      [] l.k \in {"is_written", "get_def"} -> CNames(l.v)
      [] l.k = "guard" -> {l.fn, l.first[1], l.first[2]}
      [] l.k = "if_option" -> {l.option}
      [] l.k \in {"for", "if_equal"} -> {l.it}
      [] l.k = "if_call" -> {l.fn, l.it}
      [] l.k = "is_constant" -> {l.v}
      [] l.k = "check_constant" -> CNames(l.v) \cup CNames(l.val)
      [] l.k = "set_opcode" -> {l.target}
      [] l.k \in {"insert_input", "remove_input"} -> {OpName}
      [] l.k = "new_op" -> {l.parent}
      [] l.k = "new_unique_out" -> {l.target}
      [] l.k = "insert_before" -> {l.new, l.parent}
      [] l.k = "set_input" -> {l.parent} \cup CNames(l.v)
      [] l.k = "new_constant" -> {OpName} \cup CNames(l.size) \cup CNames(l.val)
      [] OTHER -> {}

ClosesBlock(l) == l.k \in {"lambda_close", "block_close", "else"} \/ (l.k = "if_option" /\ ~l.first)

OpensBlock(l) == l.k \in {"func_open", "lambda_open", "or_open", "if_option", "else", "for"}

\* What reading the lines so far has found: the open blocks, outermost first, each
\* the set of the names declared in it (the first is the file, which "}" cannot
\* close); the names declared twice in one block; the names used where no
\* declaration of them is in an open block; whether a "}" had no block to close.
ScopeInit == [blocks |-> <<{}>>, twice |-> {}, unbound |-> {}, unbalanced |-> FALSE]

Visible(blocks) == UNION {blocks[i] : i \in 1..Len(blocks)}

ScopeStep(s, l) ==
    LET stray == ClosesBlock(l) /\ Len(s.blocks) = 1
        closed == IF ClosesBlock(l) /\ ~stray THEN SubSeq(s.blocks, 1, Len(s.blocks) - 1) ELSE s.blocks
        declared == [closed EXCEPT ![Len(closed)] = @ \cup Declares(l)]
    IN  [blocks |-> IF OpensBlock(l) THEN Append(declared, Params(l)) ELSE declared,
         twice |-> s.twice \cup (Declares(l) \cap closed[Len(closed)]),
         unbound |-> s.unbound \cup (Uses(l) \ Visible(closed)),
         unbalanced |-> s.unbalanced \/ stray]

\* Reading ends with the text or at a "}" that has no block to close.
RECURSIVE ReadLines(_, _, _)
ReadLines(s, lines, i) ==
    IF s.unbalanced \/ i > Len(lines) THEN s ELSE ReadLines(ScopeStep(s, lines[i]), lines, i + 1)

Scopes(lines) == ReadLines(ScopeInit, lines, 1)

(***************************************************************************)
(* Variables of the match expression.                                      *)
(***************************************************************************)
IsRuleVar(n) == n.pre = "autovar" /\ n.n = NoIdx

\* The input a tested expression stands for: <target>->getIn(i), or the first or
\* the second parameter of a commutative helper.
InputOf(cx) ==
    IF cx.c = "getIn" THEN cx.i
    ELSE IF cx.n.pre = "autovar_left" THEN 0
    ELSE IF cx.n.pre = "autovar_right" THEN 1
    ELSE NoIdx

Binds(l) == l.k = "assign" /\ IsRuleVar(l.name)

Checks(l) == l.k = "check" /\ l.op = "!=" /\ l.right.c = "name" /\ IsRuleVar(l.right.n)

IsVarLine(l) == Binds(l) \/ Checks(l)

VarEvent(l) ==
    IF Binds(l) THEN [name |-> l.name, kind |-> "bind", i |-> InputOf(l.src), param |-> l.src.c = "name"]
    ELSE [name |-> l.right.n, kind |-> "check", i |-> InputOf(l.left), param |-> l.left.c = "name"]

\* What the emitted lines do to rule variables, in the order of the text.
VarEvents(lines) ==
    LET sel == SelectSeq(lines, IsVarLine)
    IN  [j \in 1..Len(sel) |-> VarEvent(sel[j])]

\* The variables among the arguments of an opcode expression, depth first and
\* left to right, each with its argument index and whether its opcode is commutative.
RECURSIVE VarArguments(_, _)
VarArguments(opcode, j) ==
    IF j > Len(opcode.args) THEN <<>>
    ELSE (CASE opcode.args[j].t = "VAR" -> <<[name |-> opcode.args[j].name, i |-> j - 1, param |-> opcode.name \in COMMUTATIVE_OP_NAMES]>>
            [] opcode.args[j].t = "OP" -> VarArguments(opcode.args[j], 1)
            [] OTHER -> <<>>)
         \o VarArguments(opcode, j + 1)

\* First occurrence: a binding; every later one: a check.
ExpectedEvents(occ) ==
    [j \in 1..Len(occ) |->
        [name |-> occ[j].name,
         kind |-> IF \E k \in 1..(j - 1) : occ[k].name = occ[j].name THEN "check" ELSE "bind",
         i |-> occ[j].i,
         param |-> occ[j].param]]

Min(m, n) == IF m <= n THEN m ELSE n

\* C1: while the match side of a rule is emitted, the first occurrence of a variable
\* among the arguments of match_expr (depth first, left to right) emits a binding
\* of the variable to its target input and every later occurrence of the name
\* emits a check that returns 0 on mismatch, never both and never neither: the
\* bindings and checks of the text are those occurrences in order, cut short
\* only where an exception ended the call.
C1_FirstBindsLaterChecks ==
    emitter.out # <<>> =>
        LET ev == VarEvents(emitter.out)
            ex == ExpectedEvents(VarArguments(rule.match_expr, 1))
            n == Min(Len(ev), Len(ex))
        IN  /\ SubSeq(ev, 1, n) = SubSeq(ex, 1, n)
            /\ emitter.err = "none" => Len(ev) >= Len(ex)

\* A returned text in which a variable of the match expression, met a second time
\* below a nested opcode, is checked against its binding.
C1_Witness ==
    /\ pc = "emitted"
    /\ \E j \in 1..Len(rule.match_expr.args) : rule.match_expr.args[j].t = "OP"
    /\ \E j \in 1..Len(code.apply_op) : Checks(code.apply_op[j])
    /\ \E j \in 1..Len(code.apply_op) : Binds(code.apply_op[j])

(***************************************************************************)
(* The two orderings of a commutative root.                                *)
(***************************************************************************)
\* Line l tests input j of the matched op itself.
TestsInput(l, j) ==
    \/ l.k = "assign" /\ l.src = CGetIn(OpName, j)
    \/ l.k = "check" /\ l.left = CGetIn(OpName, j)
    \/ l.k = "constant_match" /\ l.target = CGetIn(OpName, j)

TestsAnyInput(l) == \E j \in 0..MaxArity : TestsInput(l, j)

\* Line l is what argument arg of a non-commutative opcode emits first.
TestsArgument(l, arg) ==
    CASE arg.t = "VAR" -> (Binds(l) /\ l.name = arg.name) \/ (Checks(l) /\ l.right.n = arg.name)
      [] arg.t = "OP" -> l.k = "assign" /\ l.name.pre = "autovar" /\ l.name.n >= 0
      [] OTHER -> l.k = "constant_match"

\* Lines g-2, g-1, g, g+1 read the two inputs of the matched op, call helper fn
\* with them in both orders and fail when both calls fail; the helper, opened
\* at line o and closed at line g-3, tests its parameters only and returns 1
\* where no check has failed.
BothOrderings(lines, o, g) ==
    /\ lines[o].k = "lambda_open" /\ lines[o].ind = 2
    /\ \A k \in 1..(o - 1) : lines[k].k \in {"func_open", "declare", "comment"}
    /\ \A k \in (o + 1)..(g - 5) : ~TestsAnyInput(lines[k])
    /\ lines[g - 4].k = "return" /\ lines[g - 4].v = 1
    /\ lines[g - 3].k = "lambda_close" /\ lines[g - 3].ind = 2
    /\ lines[g - 2].k = "assign" /\ lines[g - 2].src = CGetIn(OpName, 0)
    /\ lines[g - 1].k = "assign" /\ lines[g - 1].src = CGetIn(OpName, 1)
    /\ lines[g].k = "guard" /\ lines[g].fn = lines[o].fn
    /\ lines[g].first = <<lines[g - 2].name, lines[g - 1].name>>
    /\ lines[g].second = <<lines[g - 1].name, lines[g - 2].name>>
    /\ lines[g + 1].k = "return" /\ lines[g + 1].v = 0
    /\ \A k \in 1..Len(lines) : TestsAnyInput(lines[k]) => k \in {g - 2, g - 1}

TextualOrder(lines, args) ==
    /\ \A k \in 1..Len(lines) : \A j \in 0..MaxArity :
          TestsInput(lines[k], j) => j < Len(args) /\ TestsArgument(lines[k], args[j + 1])
    /\ \A j \in 0..(Len(args) - 1) : Cardinality({k \in 1..Len(lines) : TestsInput(lines[k], j)}) = 1
    /\ \A k, g \in 1..Len(lines) :
          lines[k].k = "guard" /\ lines[g].k = "assign" /\ TestsAnyInput(lines[g]) => lines[g].name \notin {lines[k].first[1], lines[k].first[2]}

\* C2: for a match root that is a 2-argument commutative opcode the returned applyOp
\* accepts the op when the pattern matches its inputs taken as (input0, input1) or
\* as (input1, input0) and fails only when both orderings fail; for a root that
\* is not commutative argument i is tested against input i and nothing else.
C2_BothOrderingsOrTextualOrder ==
    pc \in {"emitted", "done"} =>
        IF rule.match_expr.name \in COMMUTATIVE_OP_NAMES
        THEN Len(rule.match_expr.args) = 2 =>
                \E o, g \in 1..Len(code.apply_op) : o + 5 <= g /\ g < Len(code.apply_op) /\ BothOrderings(code.apply_op, o, g)
        ELSE TextualOrder(code.apply_op, rule.match_expr.args)

\* A returned text for a commutative root of two arguments, one of them an opcode
\* expression.
C2_Witness ==
    /\ pc = "emitted"
    /\ rule.match_expr.name \in COMMUTATIVE_OP_NAMES
    /\ Len(rule.match_expr.args) = 2
    /\ \E j \in 1..2 : rule.match_expr.args[j].t = "OP"
    /\ \E g \in 1..Len(code.apply_op) : code.apply_op[g].k = "guard" /\ code.apply_op[g].ind = 2

(***************************************************************************)
(* Constants of the match expression.                                      *)
(***************************************************************************)
\* What argument j of the match root is tested against.
RootTarget(j) ==
    IF rule.match_expr.name \in COMMUTATIVE_OP_NAMES
    THEN CName(Fresh(IF j = 1 THEN "autovar_left" ELSE "autovar_right", 0))
    ELSE CGetIn(OpName, j - 1)

\* Lines k-1 and k compare target with the literal of number: as written when
\* its size is 8, masked to its size otherwise.
ComparesNumber(lines, k, target, number) ==
    /\ lines[k].k = "constant_match"
    /\ lines[k].target = target
    /\ IF number.size = StrSize(8)
       THEN lines[k].val = ToC(number)
       ELSE /\ lines[k].val = CName(MaskedName)
            /\ k > 1
            /\ lines[k - 1].k = "masked_const"
            /\ lines[k - 1].val = ToC(number)
            /\ lines[k - 1].size = ToC(number.size)

\* C3: for every Number argument of a match pattern the emission of the constant
\* check completes, and the comparison uses the literal masked to its declared
\* size when that is not 8 and the literal as written when it is 8, the size
\* the parser gives where none is written included.
C3_NumberChecksComplete ==
    emitter.out # <<>> =>
        /\ emitter.err # "AttributeError: 'str' object has no attribute 'to_c'"
        /\ emitter.err = "none" =>
              \A j \in 1..Len(rule.match_expr.args) :
                  rule.match_expr.args[j].t = "NUM" =>
                      \E k \in 1..Len(emitter.out) : ComparesNumber(emitter.out, k, RootTarget(j), rule.match_expr.args[j])

(***************************************************************************)
(* Arity.                                                                  *)
(***************************************************************************)
IsInsert(l) == l.k = "insert_input"

IsRemove(l) == l.k = "remove_input"

IsWiring(l) == l.k \in {"set_input", "new_op", "new_unique_out", "new_constant", "insert_before"}

\* The indices lo, lo+1, .., hi-1 in this order (none when hi <= lo).
Range(lo, hi) == [j \in 1..(IF hi > lo THEN hi - lo ELSE 0) |-> lo + j - 1]

IndicesOf(lines) == [j \in 1..Len(lines) |-> lines[j].i]

\* C4: for match arity m and replace arity r the returned rewrite has exactly one
\* insertInput(i) for each i in [m, r) when r > m and exactly one removeInput(i)
\* for each i in [r, m) when m > r, in ascending order, none when m = r, and
\* all of them come before the statements that wire the replacement inputs.
C4_ArityAdjusted ==
    pc \in {"emitted", "done"} =>
        LET lines == code.apply_op
            m == Len(rule.match_expr.args)
            r == Len(rule.replace_expr.args)
        IN  /\ IndicesOf(SelectSeq(lines, IsInsert)) = Range(m, r)
            /\ IndicesOf(SelectSeq(lines, IsRemove)) = Range(r, m)
            /\ \A j, k \in 1..Len(lines) :
                  (IsInsert(lines[j]) \/ IsRemove(lines[j])) /\ IsWiring(lines[k]) => j < k

\* A returned rewrite that takes a match of three arguments to a replacement of one.
C4_Witness ==
    /\ pc = "emitted"
    /\ Len(rule.match_expr.args) = 3
    /\ Len(rule.replace_expr.args) = 1
    /\ Len(SelectSeq(code.apply_op, IsRemove)) = 2
    /\ \E k \in 1..Len(code.apply_op) : IsWiring(code.apply_op[k])

(***************************************************************************)
(* Alternatives.                                                           *)
(***************************************************************************)
\* The line that closes the helper opened at line o: the first "}" at its indentation.
HelperEnd(lines, o) ==
    CHOOSE c \in (o + 1)..Len(lines) :
        /\ lines[c].k = "block_close" /\ lines[c].ind = lines[o].ind
        /\ \A k \in (o + 1)..(c - 1) : ~(lines[k].k = "block_close" /\ lines[k].ind = lines[o].ind)

\* The number of alternatives of the constraint whose helper is fn.
Alternatives(fn) ==
    LET j == CHOOSE j \in 1..Len(rule.constraints) : rule.constraints[j].or_func_name = fn
    IN  Len(rule.constraints[j].right.elements)

\* The helper opened at line o has a branch for each of its N alternatives, returns
\* a non-zero value where the checks of the chosen branch have passed, and is
\* followed by a loop that calls it for 0 .. N-1 until a call returns non-zero
\* and by a failure when no call did.
HelperExhaustive(lines, o) ==
    LET c == HelperEnd(lines, o)
        N == Alternatives(lines[o].fn)
    IN  /\ {lines[k].i : k \in {k \in o..c : lines[k].k = "if_option" /\ lines[k].option = lines[o].option}} = 0..(N - 2)
        /\ \E k \in o..c : lines[k].k = "else" /\ lines[k].ind = lines[o].ind + 2
        /\ lines[c - 1].k = "return" /\ lines[c - 1].v # 0
        /\ \E f \in (c + 1)..(Len(lines) - 4) :
              /\ lines[f].k = "for" /\ lines[f].n = N
              /\ lines[f + 1].k = "if_call" /\ lines[f + 1].fn = lines[o].fn /\ lines[f + 1].it = lines[f].it
              /\ lines[f + 2].k = "break"
              /\ lines[f + 3].k = "block_close"
              /\ lines[f + 4].k = "if_equal" /\ lines[f + 4].n = N /\ lines[f + 4].it = lines[f].it

\* C5: for an '=' constraint on N >= 2 alternatives the helper has a reachable branch
\* for every alternative 0..N-1, the closing loop calls it for 0..N-1 in order
\* until one reports success, and applyOp fails at the constraint exactly when
\* all alternatives fail, going on to the rewrite otherwise.
C5_AlternativesExhaustive ==
    pc \in {"emitted", "done"} =>
        /\ \A o \in 1..Len(code.apply_op) : code.apply_op[o].k = "or_open" => HelperExhaustive(code.apply_op, o)
        /\ ~Scopes(code.apply_op).unbalanced

(***************************************************************************)
(* Declarations.                                                           *)
(***************************************************************************)
\* C6: in the returned applyOp body every named local (rule variables, generated
\* temporaries, helper names, the masked constant) is declared at most once in
\* a block, also when a variable occurs several times in replace_expr or when
\* several sized constants are checked.
C6_DeclaredOnce ==
    pc \in {"emitted", "done"} => Scopes(code.apply_op).twice = {}

\* C7: in the returned applyOp body every use of a named local comes after a
\* declaration of the name that is in scope where it is used, variables first
\* bound inside a commutative helper or inside one alternative included.
C7_UsedInScope ==
    pc \in {"emitted", "done"} => Scopes(code.apply_op).unbound = {}

(***************************************************************************)
(* Repeated emission.                                                      *)
(***************************************************************************)
\* C8: emit_c_code called again on the same Rule returns the text it returned
\* before: each call works with an Emitter of its own and nothing an earlier
\* call left (the helper names it wrote into the constraints included) changes
\* the result.
C8_SameTextEachCall ==
    [][pc = "emitted" /\ pc' \in {"emitted", "error"} => pc' = "emitted" /\ code' = code]_vars

\* The second call has returned for a rule with a constraint on alternatives, whose
\* helper name the first call left in the constraint.
C8_Witness ==
    /\ pc = "emitted"
    /\ emits = 2
    /\ \E j \in 1..Len(rule.constraints) : rule.constraints[j].or_func_name # NoName

(***************************************************************************)
(* Fresh names.                                                            *)
(***************************************************************************)
\* C9: within one Emitter _get_free_name(prefix) returns <prefix>_<n> for the
\* smallest n >= 0 whose name has not been allocated, records it, and so
\* never returns a name twice whatever the prefixes; the allocated set only grows.
C9_FreshNames ==
    [][/\ emitter.variables \subseteq emitter'.variables
       /\ returned' # returned =>
             LET name == returned'[Len(returned')]
             IN  /\ returned' = Append(returned, name)
                 /\ name.id = "" /\ name.n >= 0
                 /\ name \notin emitter.variables
                 /\ \A k \in 0..(name.n - 1) : Fresh(name.pre, k) \in emitter.variables
                 /\ name \in emitter'.variables
                 /\ \A j \in 1..Len(returned) : returned[j] # name]_vars

\* Four calls, two of them with one prefix and one with another.
C9_Witness ==
    /\ Len(returned) = 4
    /\ \E j, k \in 1..4 : returned[j].pre = returned[k].pre /\ returned[j].n = 0 /\ returned[k].n = 1
    /\ \E j, k \in 1..4 : returned[j].pre # returned[k].pre
    /\ \E v \in emitter.variables : IsRuleVar(v)

(***************************************************************************)
(* A bare variable as replacement.                                         *)
(***************************************************************************)
\* C10: a rule whose replacement root is a bare variable is rejected: the run ends
\* in an error before any text is returned, so no code is printed and the
\* output file is neither created nor overwritten.
C10_BareVariableRejected ==
    rule.replace_expr.t = "VAR" =>
        /\ pc \in {"parsed", "error"}
        /\ code = NoCode
        /\ \A j \in 1..Len(stdout) : stdout[j].k # "code"
        /\ file \in {NoFile, OldFile}

\* The emitter has refused a bare variable after the match side and the constraints
\* were emitted, with an output file named that held an earlier text.
C10_Witness ==
    /\ pc = "error"
    /\ rule.replace_expr.t = "VAR"
    /\ emitter.err = "AssertionError: The replace expression must be an OPCODE"
    /\ Len(emitter.out) > 1
    /\ Len(rule.constraints) > 0
    /\ out_file
    /\ file = OldFile

(***************************************************************************)
(* Variables of the replacement.                                           *)
(***************************************************************************)
\* C11: every variable the returned rewrite wires as an input has been assigned by
\* the match code earlier in the text, so a rule whose replacement names a
\* variable that nothing binds is not emitted.
C11_ReplaceVariablesBound ==
    LET
        \* Line l wires a rule variable as an input.
        WiresVariable(l) == l.k = "set_input" /\ l.v.c = "name" /\ IsRuleVar(l.v.n)
    IN
        pc \in {"emitted", "done"} =>
            \A k \in 1..Len(code.apply_op) :
                WiresVariable(code.apply_op[k]) =>
                    \E j \in 1..(k - 1) : Binds(code.apply_op[j]) /\ code.apply_op[j].name = code.apply_op[k].v.n

(***************************************************************************)
(* The grammar (parser.py:6-141) read as a descent over the lexemes of a   *)
(* text.  A parse result is [ok, tok, i]: whether the expression matched,  *)
(* the token its parse action built and the position of the next lexeme.   *)
(***************************************************************************)
\* get_grammar (parser.py:6-141) and parse_description (parser.py:143-156) on the
\* text, from match_expr on: the name and the ":" before it are not part of
\* the pretty form.  The result is [ok, match_expr, constraints, replace_expr].
ParseRule(text) ==
    LET
        NoMatch == [ok |-> FALSE, tok |-> NoTok, i |-> 0]

        Matched(tok, i) == [ok |-> TRUE, tok |-> tok, i |-> i]

        IsSym(s, i, sym) == i <= Len(s) /\ s[i].l = "sym" /\ s[i].s = sym

        IsLex(s, i, kind) == i <= Len(s) /\ s[i].l = kind

        \* The operators of infix_notation (parser.py:39-46), tightest first.
        InfixOps(level) ==
            CASE level = 1 -> {"*"}
              [] level = 2 -> {"+", "-"}
              [] level = 3 -> {"<<", ">>"}
              [] level = 4 -> {"&"}
              [] level = 5 -> {"^"}
              [] level = 6 -> {"|"}

        InfixLevels == 6

        IsInfixOp(s, i, level) == i <= Len(s) /\ s[i].l = "sym" /\ s[i].s \in InfixOps(level)

        \* variable (parser.py:14, 137-139)
        ParseVariable(s, i) ==
            IF IsLex(s, i, "var") THEN Matched(TOK_VAR(AutoVar(s[i].id)), i + 1) ELSE NoMatch

        \* sizeof (parser.py:26, 124-126)
        ParseSizeof(s, i) ==
            IF IsSym(s, i, "|") /\ IsLex(s, i + 1, "var") /\ IsSym(s, i + 2, "|")
            THEN Matched(TOK_SIZEOF(TOK_VAR(AutoVar(s[i + 1].id))), i + 3)
            ELSE NoMatch

        \* sized_number (parser.py:29, 128-135)
        ParseSizedNumber(s, i) ==
            IF ~IsLex(s, i, "number") THEN NoMatch
            ELSE IF IsSym(s, i + 1, ":") /\ IsLex(s, i + 2, "number")
            THEN Matched(TOK_NUMBER(s[i].val, StrSize(s[i + 2].val)), i + 3)
            ELSE IF IsSym(s, i + 1, ":") /\ ParseSizeof(s, i + 2).ok
            THEN Matched(TOK_NUMBER(s[i].val, ParseSizeof(s, i + 2).tok), i + 5)
            ELSE Matched(ParseNumber(s[i].val), i + 1)

        RECURSIVE ParseLevel(_, _, _)
        RECURSIVE SkipChain(_, _, _)

        \* A "(" value_expr ")" group once the expression inside has been read.
        CloseGroup(s, inner) ==
            IF inner.ok /\ IsSym(s, inner.i, ")") THEN Matched(inner.tok, inner.i + 1) ELSE NoMatch

        \* value (parser.py:32) or a parenthesised value_expr
        ParseValue(s, i) ==
            IF IsLex(s, i, "var") THEN ParseVariable(s, i)
            ELSE IF IsLex(s, i, "number") THEN ParseSizedNumber(s, i)
            ELSE IF IsSym(s, i, "(") THEN CloseGroup(s, ParseLevel(InfixLevels, s, i + 1))
            ELSE ParseSizeof(s, i)

        \* Further "<op> operand" pairs of one level are read; parse_value_expr builds the
        \* token from results[0], results[1] and results[2] only (parser.py:99-101).
        SkipChain(level, s, res) ==
            IF IsInfixOp(s, res.i, level) /\ ParseLevel(level - 1, s, res.i + 1).ok
            THEN SkipChain(level, s, Matched(res.tok, ParseLevel(level - 1, s, res.i + 1).i))
            ELSE res

        \* left <op> right, where right has been read after the operator at left.i.
        InfixRight(level, s, left, right) ==
            IF ~right.ok THEN left
            ELSE SkipChain(level, s, Matched(TOK_BINARY_OPERATION(s[left.i].s, left.tok, right.tok), right.i))

        InfixLeft(level, s, left) ==
            IF ~left.ok THEN NoMatch
            ELSE IF IsInfixOp(s, left.i, level) THEN InfixRight(level, s, left, ParseLevel(level - 1, s, left.i + 1))
            ELSE left

        \* value_expr (parser.py:37-47, 90-122) down from one level of operators.
        ParseLevel(level, s, i) ==
            IF level = 0 THEN ParseValue(s, i) ELSE InfixLeft(level, s, ParseLevel(level - 1, s, i))

        ParseValueExpr(s, i) == ParseLevel(InfixLevels, s, i)

        \* A list result is [ok, toks, i].
        NoList == [ok |-> FALSE, toks |-> <<>>, i |-> 0]

        ListOf(toks, i) == [ok |-> TRUE, toks |-> toks, i |-> i]

        RECURSIVE ParseExpr(_, _)
        RECURSIVE MoreArgs(_, _, _)
        RECURSIVE MoreAlternatives(_, _, _)

        \* pp.delimited_list(expr) (parser.py:52): a "," that no expr follows ends the list.
        AfterComma(s, toks, i, next) ==
            IF next.ok THEN MoreArgs(s, Append(toks, next.tok), next.i) ELSE ListOf(toks, i)

        MoreArgs(s, toks, i) ==
            IF IsSym(s, i, ",") THEN AfterComma(s, toks, i, ParseExpr(s, i + 1)) ELSE ListOf(toks, i)

        ParseArgs(s, first) ==
            IF first.ok THEN MoreArgs(s, <<first.tok>>, first.i) ELSE NoList

        CloseOpcode(s, name, args) ==
            IF args.ok /\ IsSym(s, args.i, ")") THEN Matched(TOK_OPCODE(name, args.toks), args.i + 1) ELSE NoMatch

        \* opcode_expr (parser.py:52, 86-88)
        ParseOpcodeExpr(s, i) ==
            IF IsLex(s, i, "opcode") /\ IsSym(s, i + 1, "(")
            THEN CloseOpcode(s, s[i].name, ParseArgs(s, ParseExpr(s, i + 2)))
            ELSE NoMatch

        \* pp.Or((variable, opcode_expr)) after a "|" (parser.py:55)
        ParseAlternative(s, i) ==
            IF IsLex(s, i, "var") THEN ParseVariable(s, i) ELSE ParseOpcodeExpr(s, i)

        AfterBar(s, toks, i, next) ==
            IF next.ok THEN MoreAlternatives(s, Append(toks, next.tok), next.i) ELSE ListOf(toks, i)

        MoreAlternatives(s, toks, i) ==
            IF IsSym(s, i, "|") THEN AfterBar(s, toks, i, ParseAlternative(s, i + 1)) ELSE ListOf(toks, i)

        \* parse_opcode_alt_expr (parser.py:79-84)
        AlternativesResult(res) ==
            IF Len(res.toks) > 1 THEN Matched(TOK_OPCODE_OR(res.toks), res.i) ELSE Matched(res.toks[1], res.i)

        ParseAlternatives(s, first) ==
            IF first.ok THEN AlternativesResult(MoreAlternatives(s, <<first.tok>>, first.i)) ELSE NoMatch

        \* opcode_alt_expr (parser.py:55)
        ParseOpcodeAltExpr(s, i) == ParseAlternatives(s, ParseOpcodeExpr(s, i))

        \* expr (parser.py:64): an opcode name begins an opcode expression and nothing else.
        ParseExpr(s, i) ==
            IF IsLex(s, i, "opcode") THEN ParseOpcodeAltExpr(s, i) ELSE ParseValueExpr(s, i)

        ConstraintRight(s, left, right) ==
            IF right.ok THEN Matched(TOK_CONSTRAINT(left.tok, s[left.i].s, right.tok), right.i) ELSE NoMatch

        ConstraintComparison(s, left) ==
            IF left.ok /\ (IsSym(s, left.i, "<") \/ IsSym(s, left.i, ">") \/ IsSym(s, left.i, "="))
            THEN ConstraintRight(s, left, ParseExpr(s, left.i + 1))
            ELSE NoMatch

        \* constraint (parser.py:69, 75-77)
        ParseConstraint(s, i) == ConstraintComparison(s, ParseValueExpr(s, i))

        RECURSIVE MoreConstraints(_, _, _)

        AfterParsedConstraint(s, toks, i, next) ==
            IF next.ok THEN MoreConstraints(s, Append(toks, next.tok), next.i) ELSE ListOf(toks, i)

        \* constraint[...] (parser.py:72)
        MoreConstraints(s, toks, i) == AfterParsedConstraint(s, toks, i, ParseConstraint(s, i))

        \* A rule result is [ok, match_expr, constraints, replace_expr].
        NoParse == [ok |-> FALSE, match_expr |-> NoTok, constraints |-> <<>>, replace_expr |-> NoTok]

        \* "=>" replace_expr (parser.py:73), for a replacement that is an opcode expression;
        \* what follows the replacement is not read (parser.py:146).
        ParseReplace(s, match, constraints, i, replace) ==
            IF replace.ok
            THEN [ok |-> TRUE, match_expr |-> match, constraints |-> constraints, replace_expr |-> replace.tok]
            ELSE NoParse

        ParseArrow(s, match, constraints, i) ==
            IF IsSym(s, i, "=>") THEN ParseReplace(s, match, constraints, i, ParseOpcodeExpr(s, i + 1)) ELSE NoParse

        ParseConstraintBlock(s, match, constraints) ==
            IF IsSym(s, constraints.i, "}") THEN ParseArrow(s, match, constraints.toks, constraints.i + 1) ELSE NoParse

        \* rule (parser.py:71-73, 143-156) from match_expr on: the name and the ":" before
        \* it are not part of the pretty form.
        ParseAfterMatch(s, match) ==
            IF ~match.ok THEN NoParse
            ELSE IF IsSym(s, match.i, ":-")
            THEN IF IsSym(s, match.i + 1, "{") THEN ParseConstraintBlock(s, match.tok, MoreConstraints(s, <<>>, match.i + 2)) ELSE NoParse
            ELSE ParseArrow(s, match.tok, <<>>, match.i)
    IN  ParseAfterMatch(text, ParseOpcodeExpr(text, 1))

\* C12: the pretty form that emit_c_code puts in the returned text parses back to
\* the rule it was printed from (up to the autovar_ prefix, which printing
\* strips and parsing adds), binary operations, sized numbers, size-of,
\* constraints and alternatives included.
C12_PrettyParsesBack ==
    LET
        \* The constraints as the parser builds them: no helper name assigned yet.
        RECURSIVE AsParsed(_, _)
        AsParsed(constraints, i) ==
            IF i > Len(constraints) THEN <<>>
            ELSE <<[constraints[i] EXCEPT !.or_func_name = NoName]>> \o AsParsed(constraints, i + 1)

        \* Reading text s gives the match expression, the constraints and the
        \* replacement of rule r.
        ParsesBackTo(parsed, r) ==
            /\ parsed.ok
            /\ parsed.match_expr = r.match_expr
            /\ parsed.constraints = AsParsed(r.constraints, 1)
            /\ parsed.replace_expr = r.replace_expr
    IN
        pc \in {"emitted", "done"} => ParsesBackTo(ParseRule(code.explanation), rule)

(***************************************************************************)
(* The inputs of the replacement.                                          *)
(***************************************************************************)
\* C13: for every replacement argument at index i of a parent op (the matched op or
\* a newly created one) emission completes and the returned rewrite sets input i
\* of that same parent, once: each of the inputs 0..n-1 of every op with n
\* replacement arguments is set by exactly one statement naming that op.
C13_InputsOfSameParent ==
    LET
        \* The exceptions that end the emission of a replacement argument.
        RewriteErrors ==
            {"TypeError: bad operand type for unary -: 'str'",
             "AttributeError: no attribute 'size_to_c'",
             "NotImplementedError: Tokens must implement 'get_size'.",
             "NameError: name 'left' is not defined"}

        \* The lines that set input i of the op named parent.
        SetsInput(lines, parent, i) ==
            {k \in 1..Len(lines) : lines[k].k = "set_input" /\ lines[k].parent = parent /\ lines[k].i = i}
    IN
        /\ emitter.err \notin RewriteErrors
        /\ pc \in {"emitted", "done"} =>
              /\ \A i \in 0..(Len(rule.replace_expr.args) - 1) : Cardinality(SetsInput(code.apply_op, OpName, i)) = 1
              /\ \A o \in 1..Len(code.apply_op) :
                    code.apply_op[o].k = "new_op" =>
                        \A i \in 0..(code.apply_op[o].n - 1) : Cardinality(SetsInput(code.apply_op, code.apply_op[o].name, i)) = 1

(***************************************************************************)
(* The block after the rewrite has run.  The block holds the matched op;   *)
(* data.opInsertBefore(new, parent) puts new directly before parent, which *)
(* has to be in the block, while new has not.                              *)
(***************************************************************************)
BlockInit == [ops |-> <<OpName>>, bad |-> FALSE]

InBlock(ops, name) == \E j \in 1..Len(ops) : ops[j] = name

\* The position of an op of the block.
Position(ops, name) == CHOOSE j \in 1..Len(ops) : ops[j] = name

InsertedBefore(ops, new, p) == SubSeq(ops, 1, p - 1) \o <<new>> \o SubSeq(ops, p, Len(ops))

BlockStep(block, l) ==
    IF l.k # "insert_before" THEN block
    ELSE IF InBlock(block.ops, l.parent) /\ ~InBlock(block.ops, l.new)
    THEN [ops |-> InsertedBefore(block.ops, l.new, Position(block.ops, l.parent)), bad |-> block.bad]
    ELSE [ops |-> block.ops, bad |-> TRUE]

RECURSIVE RunRewrite(_, _, _)
RunRewrite(block, lines, i) ==
    IF block.bad \/ i > Len(lines) THEN block ELSE RunRewrite(BlockStep(block, lines[i]), lines, i + 1)

\* The ops that take the output of the op named name as an input.
Consumers(lines, name) ==
    {lines[k].parent : k \in {k \in 1..Len(lines) :
        /\ lines[k].k = "set_input"
        /\ \E u \in 1..Len(lines) : lines[u].k = "new_unique_out" /\ lines[u].target = name /\ lines[k].v = CName(lines[u].name)}}

NewOpsInPlace(lines, block) ==
    /\ ~block.bad
    /\ Cardinality({j \in 1..Len(block.ops) : block.ops[j] = OpName}) = 1
    /\ \A o \in 1..Len(lines) :
          lines[o].k = "new_op" =>
              /\ lines[o].name # OpName
              /\ InBlock(block.ops, lines[o].name)
              /\ Position(block.ops, lines[o].name) < Position(block.ops, OpName)
              /\ Consumers(lines, lines[o].name) # {}
              /\ \A c \in Consumers(lines, lines[o].name) :
                    InBlock(block.ops, c) /\ Position(block.ops, lines[o].name) < Position(block.ops, c)
    /\ \A u, w \in 1..Len(lines) :
          lines[u].k = "new_unique_out" /\ lines[w].k = "new_unique_out" /\ u # w => lines[u].name # lines[w].name

\* C14: after the returned rewrite has run, every newly created op is in the block
\* before the matched op and before the op that takes its output, the outputs
\* of the new ops have pairwise distinct names, and the matched op is in the
\* block once, where it was (nothing is inserted after it, no statement
\* creates or inserts an op under its name).
C14_NewOpsBeforeMatchedOp ==
    pc \in {"emitted", "done"} =>
        /\ NewOpsInPlace(code.apply_op, RunRewrite(BlockInit, code.apply_op, 1))
        /\ RunRewrite(BlockInit, code.apply_op, 1).ops[Len(RunRewrite(BlockInit, code.apply_op, 1).ops)] = OpName

\* A returned rewrite with a new op nested in a new op.
C14_Witness ==
    /\ pc = "emitted"
    /\ Len(RunRewrite(BlockInit, code.apply_op, 1).ops) >= 3
    /\ \E o, u \in 1..Len(code.apply_op) :
          /\ code.apply_op[o].k = "new_op" /\ code.apply_op[u].k = "new_op"
          /\ code.apply_op[u].parent = code.apply_op[o].name

(***************************************************************************)
(* Variables bound inside a commutative helper.                            *)
(***************************************************************************)
\* C15: every variable first bound inside a commutative helper is declared in the
\* enclosing scope before the helper is defined and only assigned inside it, so
\* that the binding of the ordering that succeeded is visible after the guard;
\* also for variables that do not occur in replace_expr.
C15_HelperVariablesDeclaredOutside ==
    LET
        \* Line k stands in the body of a helper lambda.
        InHelper(lines, k) ==
            \E o \in 1..(k - 1) :
                /\ lines[o].k = "lambda_open"
                /\ \A c \in (o + 1)..(k - 1) : ~(lines[c].k = "lambda_close" /\ lines[c].ind = lines[o].ind)
    IN
        pc \in {"emitted", "done"} =>
            \A k \in 1..Len(code.apply_op) :
                Binds(code.apply_op[k]) /\ InHelper(code.apply_op, k) =>
                    /\ ~code.apply_op[k].decl
                    /\ \E j \in 1..(k - 1) :
                          /\ code.apply_op[j].k = "declare"
                          /\ code.apply_op[j].name = code.apply_op[k].name
                          /\ ~InHelper(code.apply_op, j)

(***************************************************************************)
(* Ordered constraints.                                                    *)
(***************************************************************************)
\* C16: for a rule whose constraints are all '<' or '>' constraints of a bound
\* variable with a bound variable, a number or a binary operation, every
\* to_check_c call completes, the indent level stays what it was (nothing is
\* left to close), and the text fails the match when the compared varnodes are
\* not constants in the strict order; '>' as '<' with the comparison turned.
C16_OrderedConstraintsChecked ==
    LET
        \* The variables match_expr binds.
        MatchVariables == {GetVariables(rule.match_expr)[j].name : j \in 1..Len(GetVariables(rule.match_expr))}

        \* A '<' or '>' constraint of a bound variable with a bound variable, a number or
        \* a binary operation over bound variables, its two sides not the same variable.
        OrderedConstraint(c) ==
            /\ c.cmp \in {"<", ">"}
            /\ c.left.t = "VAR"
            /\ c.right.t \in {"VAR", "NUM", "BINOP"}
            /\ ~PyTokEq(c.left, c.right)
            /\ \A j \in 1..Len(GetVariables(c)) : GetVariables(c)[j].name \in MatchVariables

        \* The text fails the match unless left < right (for '<') or left > right (for '>')
        \* holds of two constants.
        FailsUnlessOrdered(lines, c) ==
            \E k \in 1..Len(lines) :
                /\ lines[k].k = "check_constant"
                /\ lines[k].v = ToC(c.left)
                /\ lines[k].op = (IF c.cmp = "<" THEN ">=" ELSE "<=")
    IN
        rule.constraints # <<>> /\ (\A j \in 1..Len(rule.constraints) : OrderedConstraint(rule.constraints[j])) =>
            /\ emitter.err # "AttributeError: no attribute '_size'"
            /\ pc \in {"emitted", "done"} =>
                  /\ \A j \in 1..Len(rule.constraints) : FailsUnlessOrdered(code.apply_op, rule.constraints[j])
                  /\ \A k \in 1..Len(code.apply_op) : code.apply_op[k].k \notin {"or_open", "for"}

(***************************************************************************)
(* What the constraints open and close.                                    *)
(***************************************************************************)
\* C17: for any sequence of constraints every structure a to_check_c call opened is
\* closed once by to_check_c_end, in reverse order and after all constraints
\* were emitted, and the braces of the returned text balance: at no line has
\* more been closed than opened, and at the end of the function nothing is
\* left open.
C17_OpenedClosedOnce ==
    LET
        \* The number of blocks the first n lines open, and the number they close.
        Opened(lines, n) == Cardinality({k \in 1..n : OpensBlock(lines[k])})

        Closed(lines, n) == Cardinality({k \in 1..n : ClosesBlock(lines[k])})

        IsOrOpen(l) == l.k = "or_open"

        IsIfCall(l) == l.k = "if_call"

        Reverse(seq) == [j \in 1..Len(seq) |-> seq[Len(seq) + 1 - j]]

        HelperNames(lines) == [j \in 1..Len(lines) |-> lines[j].fn]

        \* Every helper opened by to_check_c is closed by one loop of to_check_c_end, the
        \* loops come after all the helpers and in the reverse order.
        ClosedInReverse(lines) ==
            /\ HelperNames(SelectSeq(lines, IsIfCall)) = Reverse(HelperNames(SelectSeq(lines, IsOrOpen)))
            /\ \A o, f \in 1..Len(lines) : IsOrOpen(lines[o]) /\ IsIfCall(lines[f]) => o < f
    IN
        pc \in {"emitted", "done"} =>
            /\ ClosedInReverse(code.apply_op)
            /\ \A n \in 1..Len(code.apply_op) : Closed(code.apply_op, n) <= Opened(code.apply_op, n)
            /\ Closed(code.apply_op, Len(code.apply_op)) = Opened(code.apply_op, Len(code.apply_op))

(***************************************************************************)
(* Constraints with equal sides.                                           *)
(***************************************************************************)
\* C18: for a rule whose constraints all have trivially equal sides no to_check_c
\* call aborts; an '=' constraint emits nothing, a '<' or '>' constraint emits
\* an unconditional "return 0;" and prints a warning in each call, and no indent level
\* changes (nothing is opened).
C18_EqualSidesShortCircuit ==
    LET
        \* The two sides are the same variable or the same value expression.
        TriviallyEqual(c) == c.left.t = c.right.t /\ c.left = c.right

        IsOrdered(c) == c.cmp \in {"<", ">"}

        IsReturnRaw(l) == l.k = "return_raw"

        IsWarning(p) == p.k = "warning"
    IN
        rule.constraints # <<>> /\ (\A j \in 1..Len(rule.constraints) : TriviallyEqual(rule.constraints[j])) =>
            /\ emitter.err # "AttributeError: no attribute '_size'"
            /\ pc \in {"emitted", "done"} =>
                  /\ Len(SelectSeq(code.apply_op, IsReturnRaw)) = Len(SelectSeq(rule.constraints, IsOrdered))
                  /\ Len(SelectSeq(stdout, IsWarning)) = emits * Len(SelectSeq(rule.constraints, IsOrdered))
                  /\ \A k \in 1..Len(code.apply_op) :
                        code.apply_op[k].k \notin {"check_constant", "constant_match", "is_constant", "is_written", "or_open", "for"}

(***************************************************************************)
(* Statements that change the IR and statements that can fail the match.   *)
(***************************************************************************)
\* C19: in the emitted applyOp every statement that changes the IR comes after
\* every statement that can fail the match, and the one "return 1;" of the
\* function body comes after all of both.
C19_NoMutationBeforeLastCheck ==
    LET
        \* opSetOpcode, insertInput, opRemoveInput, newOp, newUniqueOut, newConstant,
        \* opInsertBefore, opSetInput.
        Mutates(l) ==
            l.k \in {"set_opcode", "insert_input", "remove_input", "new_op", "new_unique_out",
                     "new_constant", "insert_before", "set_input"}

        \* A line with a "return 0" or "return false", or the condition of one.
        CanFail(l) ==
            \/ l.k \in {"check", "check_code", "constant_match", "is_written", "guard", "if_equal",
                        "return_raw", "is_constant", "check_constant"}
            \/ l.k = "return" /\ l.v = 0

        IsSuccess(l) == l.k = "return" /\ l.v = 1 /\ l.ind = 2
    IN
        pc \in {"emitted", "done"} =>
            /\ \A m \in 1..Len(code.apply_op) : \A f \in 1..Len(code.apply_op) :
                  Mutates(code.apply_op[m]) /\ CanFail(code.apply_op[f]) => f < m
            /\ \A s \in 1..Len(code.apply_op) :
                  IsSuccess(code.apply_op[s]) =>
                      /\ s = Len(code.apply_op) - 1
                      /\ \A n \in 1..Len(code.apply_op) :
                            Mutates(code.apply_op[n]) \/ CanFail(code.apply_op[n]) => n < s
            /\ \E s \in 1..Len(code.apply_op) : IsSuccess(code.apply_op[s])

\* An emitted text whose alternative constraint leaves checks to phase B and
\* whose rewrite changes the opcode and sets inputs.
C19_Witness ==
    /\ pc = "emitted"
    /\ \E f \in 1..Len(code.apply_op) : code.apply_op[f].k = "if_equal"
    /\ \E m \in 1..Len(code.apply_op) : code.apply_op[m].k = "set_input"
    /\ \E m \in 1..Len(code.apply_op) : code.apply_op[m].k = "set_opcode"

====
